---- MODULE Spec2Model ----
(***************************************************************************)
(* Model of the batch video converter (src/main.go).                       *)
(*                                                                         *)
(* The concurrent variant (src/main.go lines 436-962) is modelled as a set *)
(* of goroutines: the main goroutine running processFiles, one task        *)
(* goroutine per file running processFile, the signal-handler goroutine    *)
(* running ProcessManager.Shutdown, and the external transcoder processes. *)
(* The sequential variant (src/main.go lines 1-434) runs processFile in    *)
(* the main goroutine, one file after the other.  The basic variant        *)
(* (src/unnamed/part_001) is concurrent, without cancellation or markers.  *)
(* The filesystem is modelled per source file: its converted directory,    *)
(* its output path and its '.incomplete' marker.                           *)
(***************************************************************************)
EXTENDS Integers, FiniteSets, Sequences, TLC

\* ------------------------------------------------------------------ bounds
NumFiles == 3
MaxCPU == 64
MaxDepth == 2
MaxTree == 2

\* ------------------------------------------------------- program constants
MAX_WORKERS == 2
TARGET_CPU_PERCENT == 50

Files == 1..NumFiles

\* Outcome codes returned by processFile.
Succeeded == 0
Skipped == 1
Failed == 2
Canceled == 3
NoResult == 0 - 1

VARIABLES
    variant,        \* which program runs: "concurrent", "sequential", "basic"
    ctxDone,        \* pm.ctx is canceled
    processes,      \* pm.processes: the registry (a process is named by its file)
    sigterm,        \* live processes that were sent SIGTERM by Shutdown
    wg,             \* pm.wg counter
    semaphore,      \* number of slots held in the semaphore channel
    successCount, skipCount, errorCount, canceledCount,
    nfiles,         \* len(files): the number of files findVideoFiles returned
    next,           \* index of the file the dispatch loop is at
    dpc,            \* position of the main goroutine in processFiles / main
    dtmp,           \* value computed by the dispatch loop before it is stored
    tpc,            \* tpc[f]: position of the task goroutine of file f
    result,         \* result[f]: the value processFile returned for f
    prev,           \* prev[f]: the value it returned in the run before this one
    dir,            \* dir[f]: the converted directory of f exists
    output,         \* output[f]: the file at the output path of f
    marker,         \* marker[f]: the '.incomplete' marker of f
    temp,           \* temp[f]: the file at the output path of f plus ".tmp"
    verified,       \* verified[f]: the process that wrote the output of f exited
                    \* with status zero and the output was there and not empty
    proc,           \* proc[f]: the external transcoder process of f
    spc,            \* position of the signal-handler goroutine
    sigChan,        \* number of signals buffered in sigChan
    err,            \* what processFiles returned to main, "unset" before
    done,           \* the select of Shutdown has taken the case <-done
    printed,        \* the summary of processFiles has been printed
    tree,           \* the source files below the root directory
    found,          \* the list findVideoFiles returned
    numCPU,         \* runtime.NumCPU()
    threadsPerWorker, \* the thread budget passed to each transcoder, 0 before
                    \* it is computed
    exitCode        \* -1 while the program runs, else its exit status

vars == << variant, ctxDone, processes, sigterm, wg, semaphore,
           successCount, skipCount, errorCount, canceledCount,
           nfiles, next, dpc, dtmp, tpc, result, prev,
           dir, output, marker, temp, verified, proc, spc, printed,
           tree, found, numCPU, threadsPerWorker, sigChan, err, done,
           exitCode >>

pmVars == << ctxDone, processes, sigterm, wg >>
countVars == << successCount, skipCount, errorCount, canceledCount >>
dispVars == << next, dpc, dtmp, printed >>
taskVars == << tpc, result >>
fsVars == << dir, output, marker, temp, verified >>
cpuVars == << numCPU, threadsPerWorker >>
walkVars == << tree, found >>
runVars == << variant, nfiles, prev, cpuVars, walkVars, sigChan, err,
             exitCode >>
envVars == << runVars, done >>

Concurrent == variant = "concurrent"
Sequential == variant = "sequential"
Basic == variant = "basic"

Running == exitCode = -1

\* ------------------------------------------------------------ initial state
\* What an earlier run may have left for one file: nothing, a finished
\* output, or a marker of an interrupted conversion with or without a
\* partial output.
FileKinds == { "fresh", "finished", "staleOutput", "staleMarker" }

KindDir(k) == k # "fresh"
KindOutput(k) == IF k \in { "finished", "staleOutput" } THEN "old" ELSE "absent"
KindMarker(k) == IF k \in { "staleOutput", "staleMarker" } THEN "stale" ELSE "none"

\* ------------------------------------------------------------ findVideoFiles
CONVERTED_DIR == "converted"

\* A file below the root: the names of the directories on its path, its base
\* name and its extension.
DirNames == { "a", CONVERTED_DIR }
Extensions == { ".mov", ".MOV", ".mkv", ".txt" }
SourcePath(d, n, e) == [dirs |-> d, name |-> n, ext |-> e]

\* strings.ToLower on the extensions of the model.
ToLower(e) == IF e = ".MOV" THEN ".mov" ELSE e

\* The extension test: SOURCE_EXTENSIONS is ".MOV,.mov" (".mov" in the
\* sequential variant), compared after ToLower on both sides.
SourceExtensions == IF variant = "sequential" THEN { ".mov" }
                                              ELSE { ".MOV", ".mov" }
HasSourceExtension(e) ==
    \E allowed \in SourceExtensions : ToLower(e) = ToLower(allowed)

\* if info.Name() == CONVERTED_DIR { return filepath.SkipDir }: the callback
\* of the concurrent and of the basic variant; the sequential one returns
\* nil for every directory.
SkipDir(d) == variant # "sequential" /\ d = CONVERTED_DIR

\* filepath.Walk from the directory `at`: the files of the directory that
\* pass the extension test, and the walks of its subdirectories that the
\* callback does not skip.
RECURSIVE Walk(_, _)
Walk(t, at) ==
    LET here == { p \in t : p.dirs = at /\ HasSourceExtension(p.ext) }
        subdirs == { p.dirs[Len(at) + 1] :
                        p \in { q \in t : /\ Len(q.dirs) > Len(at)
                                            /\ SubSeq(q.dirs, 1, Len(at)) = at } }
    IN  here \cup UNION { IF SkipDir(d) THEN {} ELSE Walk(t, Append(at, d)) :
                             d \in subdirs }

findVideoFiles(t) == Walk(t, << >>)

\* The tree whose n source files all lie in the root directory.
FlatTree(n) == { SourcePath(<< >>, f, ".mov") : f \in 1..n }

\* A calculator without the guards against zero.
NoFloor(n) == n

\* if n < 1 { n = 1 }
AtLeastOne(n) == IF n < 1 THEN 1 ELSE n

\* calculateThreadsPerWorker: totalThreads := (TARGET_CPU_PERCENT * numCPU) /
\* 100, floored at 1; threadsPerWorker := totalThreads / MAX_WORKERS, floored
\* at 1.  The operands are positive, so Go's integer division is \div.
calculateThreadsPerWorker(n) ==
    AtLeastOne(AtLeastOne((TARGET_CPU_PERCENT * n) \div 100) \div MAX_WORKERS)

\* The memory of the program when processFiles is entered.
Started ==
    /\ numCPU = MaxCPU
    /\ threadsPerWorker = calculateThreadsPerWorker(numCPU)
    /\ ctxDone = FALSE
    /\ processes = {}
    /\ sigterm = {}
    /\ wg = 0
    /\ semaphore = 0
    /\ successCount = 0 /\ skipCount = 0 /\ errorCount = 0 /\ canceledCount = 0
    /\ next = 1
    /\ dpc = "check"
    /\ dtmp = 0
    /\ tpc = [f \in Files |-> "idle"]
    /\ result = [f \in Files |-> NoResult]
    /\ spc = "idle"
    /\ sigChan = 0
    /\ err = "unset"
    /\ done = FALSE

\* The files and processes the program finds when it starts on a list of n
\* files, each with leftovers of one of the given kinds.
Tree(n, kinds) ==
    /\ nfiles = n
    /\ tree = FlatTree(n)
    /\ found = findVideoFiles(tree)
    /\ \E kind \in [Files -> kinds] :
          /\ dir = [f \in Files |-> f <= n /\ KindDir(kind[f])]
          /\ output = [f \in Files |-> IF f <= n THEN KindOutput(kind[f])
                                                 ELSE "absent"]
          /\ marker = [f \in Files |-> IF f <= n THEN KindMarker(kind[f])
                                                 ELSE "none"]
    /\ temp = [f \in Files |-> "absent"]
    /\ verified = [f \in Files |-> FALSE]
    /\ proc = [f \in Files |-> "none"]
    /\ printed = FALSE
    /\ prev = [f \in Files |-> NoResult]
    /\ exitCode = -1

Variants == { "concurrent", "sequential", "basic" }

\* A run of either variant over NumFiles files, each new or converted by an
\* earlier run.
Init ==
    /\ variant \in Variants
    /\ Started
    /\ Tree(NumFiles, { "fresh", "finished" })

\* A run over a shorter list on a tree with any leftovers of earlier runs.
InitRecovery ==
    /\ variant \in Variants
    /\ Started
    /\ Tree(NumFiles - 1, FileKinds)

\* The program exits with `code`: its goroutines and its memory are gone,
\* the files and the external processes stay.
Exit(code) ==
    /\ exitCode' = code
    /\ UNCHANGED << variant, nfiles, prev, cpuVars, walkVars, done >>
    /\ sigChan' = 0
    /\ ctxDone' = FALSE
    /\ processes' = {}
    /\ sigterm' = {}
    /\ wg' = 0
    /\ semaphore' = 0
    /\ successCount' = 0 /\ skipCount' = 0 /\ errorCount' = 0
    /\ canceledCount' = 0
    /\ next' = 1
    /\ dpc' = "gone"
    /\ dtmp' = 0
    /\ tpc' = [f \in Files |-> "gone"]
    /\ result' = [f \in Files |-> NoResult]
    /\ spc' = "gone"
    /\ proc' = [f \in Files |->
                  IF proc[f] \in { "exit0", "exitN" } THEN "gone" ELSE proc[f]]

\* ------------------------------------------------ processFiles (dispatch loop)
\* The loop head: `for _, file := range files` and the select on ctx.Done().
\* On cancellation the loop computes the remainder; the `break` that follows
\* leaves the select statement only, so the loop goes on to wg.Add.
CanceledRemainder(n, s, k, e) == n - s - k - e

D_Check ==
    /\ Running /\ Concurrent /\ dpc = "check"
    /\ IF next > nfiles
          THEN dpc' = "wait" /\ dtmp' = dtmp
          ELSE IF ctxDone
                  THEN /\ dtmp' = CanceledRemainder(nfiles, successCount,
                                                    skipCount, errorCount)
                       /\ dpc' = "store"
                  ELSE dpc' = "add" /\ dtmp' = dtmp
    /\ UNCHANGED << pmVars, countVars, next, printed, semaphore, taskVars,
                    fsVars, proc, spc, envVars >>

\* canceledCount = len(files) - successCount - skipCount - errorCount,
\* stored without holding mu.
D_Store ==
    /\ Running /\ Concurrent /\ dpc = "store"
    /\ canceledCount' = dtmp
    /\ dtmp' = 0
    /\ dpc' = "add"
    /\ UNCHANGED << pmVars, successCount, skipCount, errorCount, next,
                    printed, semaphore, taskVars, fsVars, proc, spc,
                    envVars >>

\* pm.wg.Add(1)
D_Add ==
    /\ Running /\ Concurrent /\ dpc = "add"
    /\ wg' = wg + 1
    /\ dpc' = "acquire"
    /\ UNCHANGED << ctxDone, processes, sigterm, countVars, next, dtmp, printed,
                    semaphore, taskVars, fsVars, proc, spc, envVars >>

\* A channel send that never blocks.
SlotAlwaysFree(s) == TRUE

\* semaphore <- struct{}{} blocks while MAX_WORKERS slots are held.
SlotFree(s) == s < MAX_WORKERS

\* The slot is acquired and the task goroutine of the file is started.
D_Acquire ==
    /\ Running /\ Concurrent /\ dpc = "acquire"
    /\ SlotFree(semaphore)
    /\ semaphore' = semaphore + 1
    /\ tpc' = [tpc EXCEPT ![next] = "entry"]
    /\ next' = next + 1
    /\ dpc' = "check"
    /\ UNCHANGED << pmVars, countVars, dtmp, printed, result, fsVars,
                    proc, spc, envVars >>

\* pm.wg.Wait() returns and the summary is printed.
D_Summary ==
    /\ Running /\ Concurrent /\ dpc = "wait"
    /\ wg = 0
    /\ printed' = TRUE
    /\ dpc' = "summary"
    /\ UNCHANGED << pmVars, countVars, next, dtmp, semaphore, taskVars,
                    fsVars, proc, spc, envVars >>

\* A processFiles that returns nil whatever the context says.
NoError(c) == "nil"

\* if pm.ctx.Err() != nil { return pm.ctx.Err() }; return nil
ctxErr(c) == IF c THEN "Canceled" ELSE "nil"

\* processFiles returns, main prints its last line and returns: exit status 0.
\* processFiles of the basic variant returns no value.
M_Return ==
    /\ Running /\ dpc = "summary"
    /\ err' = IF Basic THEN err ELSE ctxErr(ctxDone)
    /\ Exit(0)
    /\ UNCHANGED << printed, fsVars >>

\* ------------------------------------------------------ processFile (a task)
\* The goroutine of processFiles counts the result under mu; its deferred
\* calls release the slot and call wg.Done.
Count(c, r, k) == IF r = k THEN c + 1 ELSE c

\* A goroutine that ends without taking its slot back out of the channel.
KeepSlot(s) == s

\* defer func() { <-semaphore }()
ReleaseSlot(s) == s - 1

\* processFile returns r for f and the goroutine of the task finishes.
Return(f, r) ==
    /\ result' = [result EXCEPT ![f] = r]
    /\ successCount' = Count(successCount, r, Succeeded)
    /\ skipCount' = Count(skipCount, r, Skipped)
    /\ errorCount' = Count(errorCount, r, Failed)
    /\ canceledCount' = Count(canceledCount, r, Canceled)
    /\ semaphore' = ReleaseSlot(semaphore)
    /\ wg' = wg - 1
    /\ tpc' = [tpc EXCEPT ![f] = "done"]

\* The task goes on to `pc` inside processFile.
Goto(f, pc) ==
    /\ tpc' = [tpc EXCEPT ![f] = pc]
    /\ UNCHANGED << result, countVars, semaphore, wg >>

\* An entry check that always takes the default case.
EntryNeverCanceled(c) == FALSE

\* select { case <-pm.ctx.Done(): return 3; default: }
EntryCanceled(c) == c

T_Entry(f) ==
    /\ Running /\ Concurrent /\ tpc[f] = "entry"
    /\ IF EntryCanceled(ctxDone)
          THEN Return(f, Canceled)
          ELSE Goto(f, "prepare")
    /\ UNCHANGED << ctxDone, processes, sigterm, dispVars, fsVars, proc, spc,
                    envVars >>

\* A check that never finds the output.
OutputNeverExists(o) == FALSE

\* os.Stat(outputPath) succeeds
OutputExists(o) == o # "absent"

\* A task that goes on without writing its marker.
NoMarker(m) == m

\* os.WriteFile(incompleteMarker, []byte(time.Now().String()), 0644)
WriteMarker(m) == "mine"

\* os.MkdirAll(convertedDir), the output-exists check, then
\* os.WriteFile(incompleteMarker, ...).
T_Prepare(f) ==
    /\ Running /\ Concurrent /\ tpc[f] = "prepare"
    /\ \/ /\ ~dir[f]                        \* MkdirAll fails
          /\ Return(f, Failed)
          /\ UNCHANGED << dir, marker >>
       \/ /\ dir' = [dir EXCEPT ![f] = TRUE]
          /\ IF OutputExists(output[f])
                THEN Return(f, Skipped) /\ marker' = marker
                ELSE \/ Return(f, Failed) /\ marker' = marker  \* WriteFile fails
                     \/ /\ marker' = [marker EXCEPT ![f] = WriteMarker(marker[f])]
                        /\ Goto(f, "start")
    /\ UNCHANGED << ctxDone, processes, sigterm, dispVars, output, verified, temp,
                    proc, spc, envVars >>

\* cleanup(): os.Remove(outputPath); os.Remove(incompleteMarker)
CleanupOutput(o) == "absent"
CleanupMarker(m) == "none"

cleanup(f) ==
    /\ output' = [output EXCEPT ![f] = CleanupOutput(output[f])]
    /\ marker' = [marker EXCEPT ![f] = CleanupMarker(marker[f])]
    /\ verified' = [verified EXCEPT ![f] = FALSE]

\* pm.RegisterProcess(cmd)
RegisterProcess(reg, f) == reg \cup { f }

\* An unregistration that leaves the registry as it is.
KeepRegistered(reg, f) == reg

\* pm.UnregisterProcess(pid)
UnregisterProcess(reg, f) == reg \ { f }

\* cmd.Start(): on failure cleanup() and return 2; on success
\* pm.RegisterProcess(cmd) and the goroutine that waits for the process.
T_Start(f) ==
    /\ Running /\ Concurrent /\ tpc[f] = "start"
    /\ \/ /\ cleanup(f)
          /\ Return(f, Failed)
          /\ UNCHANGED << proc, processes >>
       \/ /\ proc' = [proc EXCEPT ![f] = "started"]
          /\ processes' = RegisterProcess(processes, f)
          /\ Goto(f, "select")
          /\ UNCHANGED << output, marker, verified >>
    /\ UNCHANGED << ctxDone, sigterm, dispVars, dir, temp, spc, envVars >>

Exited(p) == p \in { "exit0", "exitN" }
Alive(p) == p \in { "started", "opened", "startedK", "openedK" }

\* A kill that does nothing.
NoKill(p) == p

\* cmd.Process.Kill(): SIGKILL is queued for a process that has not exited;
\* the call does not wait for the process to die.
Kill(p) == CASE p = "started" -> "startedK"
             [] p = "opened" -> "openedK"
             [] OTHER -> p

\* The exit status of a process that nobody waits for any more is dropped.
Reaped(p) == IF Exited(p) THEN "gone" ELSE p

\* A check that accepts whatever is at the output path, or nothing.
IntegrityAlwaysOK(o) == TRUE

\* os.Stat(outputPath) succeeds and info.Size() != 0
IntegrityOK(o) == o \notin { "absent", "empty" }

\* A select without the case of the context: the task waits for the process.
WaitsForProcess(c) == FALSE

\* select { case <-pm.ctx.Done(): ... } is ready once the context is
\* canceled, whatever the process does.
SelectsCancel(c) == c

\* select, case <-pm.ctx.Done(): Kill, UnregisterProcess, cleanup(),
\* return 3.
T_SelectCancel(f) ==
    /\ Running /\ Concurrent /\ tpc[f] = "select"
    /\ SelectsCancel(ctxDone)
    /\ proc' = [proc EXCEPT ![f] = Reaped(Kill(proc[f]))]
    /\ processes' = UnregisterProcess(processes, f)
    /\ sigterm' = sigterm \ { f }
    /\ cleanup(f)
    /\ Return(f, Canceled)
    /\ UNCHANGED << ctxDone, dispVars, dir, temp, spc, envVars >>

\* select, case err := <-done: UnregisterProcess.  On an error: cleanup(),
\* return 3 if the context is canceled and 2 otherwise.  Else the check that
\* the output was created and is not empty: on failure cleanup() and
\* return 2; on success the marker is removed, return 0.
T_SelectDone(f) ==
    /\ Running /\ Concurrent /\ tpc[f] = "select"
    /\ Exited(proc[f])
    /\ processes' = UnregisterProcess(processes, f)
    /\ proc' = [proc EXCEPT ![f] = Reaped(proc[f])]
    /\ IF proc[f] = "exitN"
          THEN /\ cleanup(f)
               /\ Return(f, IF ctxDone THEN Canceled ELSE Failed)
          ELSE IF IntegrityOK(output[f])
                  THEN /\ marker' = [marker EXCEPT ![f] = "none"]
                       /\ verified' = [verified EXCEPT ![f] = TRUE]
                       /\ output' = output
                       /\ Return(f, Succeeded)
                  ELSE /\ cleanup(f)
                       /\ Return(f, Failed)
    /\ UNCHANGED << ctxDone, sigterm, dispVars, dir, temp, spc, envVars >>

\* ---------------------------------------- the sequential variant of the loop
\* processFile returned r for f: pm.wg.Done(), the result is counted and the
\* loop goes to the next file.
SeqReturn(f, r) ==
    /\ result' = [result EXCEPT ![f] = r]
    /\ successCount' = Count(successCount, r, Succeeded)
    /\ skipCount' = Count(skipCount, r, Skipped)
    /\ errorCount' = Count(errorCount, r, Failed)
    /\ canceledCount' = Count(canceledCount, r, Canceled)
    /\ wg' = wg - 1
    /\ tpc' = [tpc EXCEPT ![f] = "done"]
    /\ next' = next + 1
    /\ dpc' = "check"

SeqGoto(f, pc) ==
    /\ tpc' = [tpc EXCEPT ![f] = pc]
    /\ UNCHANGED << result, countVars, wg, next, dpc >>

\* The loop head: when the list is exhausted, or when pm.ctx.Err() != nil
\* (the remainder is counted as canceled and `break` leaves the loop), the
\* summary is printed.  Otherwise the loop goes on to pm.wg.Add(1).
Q_Check ==
    /\ Running /\ Sequential /\ dpc = "check"
    /\ IF next > nfiles
          THEN /\ printed' = TRUE
               /\ dpc' = "summary"
               /\ UNCHANGED << canceledCount, wg, tpc >>
          ELSE IF ctxDone
                  THEN /\ canceledCount' =
                             CanceledRemainder(nfiles, successCount,
                                               skipCount, errorCount)
                       /\ printed' = TRUE
                       /\ dpc' = "summary"
                       /\ UNCHANGED << wg, tpc >>
                  ELSE /\ dpc' = "add"
                       /\ UNCHANGED << canceledCount, printed, wg, tpc >>
    /\ UNCHANGED << ctxDone, processes, sigterm, successCount, skipCount,
                    errorCount, next, dtmp, semaphore, result, fsVars, proc,
                    spc, envVars >>

\* pm.wg.Add(1) and the call of processFile.
Q_Add ==
    /\ Running /\ Sequential /\ dpc = "add"
    /\ wg' = wg + 1
    /\ tpc' = [tpc EXCEPT ![next] = "entry"]
    /\ dpc' = "call"
    /\ UNCHANGED << ctxDone, processes, sigterm, countVars, next, dtmp,
                    printed, semaphore, result, fsVars, proc, spc, envVars >>

\* The entry check of the context, then os.Stat(file.sourcePath).
Q_Entry(f) ==
    /\ Running /\ Sequential /\ tpc[f] = "entry"
    /\ IF EntryCanceled(ctxDone)
          THEN SeqReturn(f, Canceled)
          ELSE \/ SeqReturn(f, Failed)          \* Stat of the source fails
               \/ SeqGoto(f, "prepare")
    /\ UNCHANGED << ctxDone, processes, sigterm, dtmp, printed, semaphore,
                    fsVars, proc, spc, envVars >>

\* os.MkdirAll, the output-exists check, os.WriteFile of the marker.
Q_Prepare(f) ==
    /\ Running /\ Sequential /\ tpc[f] = "prepare"
    /\ \/ /\ ~dir[f]                        \* MkdirAll fails
          /\ SeqReturn(f, Failed)
          /\ UNCHANGED << dir, marker >>
       \/ /\ dir' = [dir EXCEPT ![f] = TRUE]
          /\ IF OutputExists(output[f])
                THEN SeqReturn(f, Skipped) /\ marker' = marker
                ELSE \/ SeqReturn(f, Failed) /\ marker' = marker
                     \/ /\ marker' = [marker EXCEPT ![f] = WriteMarker(marker[f])]
                        /\ SeqGoto(f, "start")
    /\ UNCHANGED << ctxDone, processes, sigterm, dtmp, printed, semaphore,
                    output, verified, temp, proc, spc, envVars >>

\* cmd.Start(): on failure cleanup() and return 2; else RegisterProcess.
Q_Start(f) ==
    /\ Running /\ Sequential /\ tpc[f] = "start"
    /\ \/ /\ cleanup(f)
          /\ SeqReturn(f, Failed)
          /\ UNCHANGED << proc, processes >>
       \/ /\ proc' = [proc EXCEPT ![f] = "started"]
          /\ processes' = RegisterProcess(processes, f)
          /\ SeqGoto(f, "select")
          /\ UNCHANGED << output, marker, verified >>
    /\ UNCHANGED << ctxDone, sigterm, dtmp, printed, semaphore, dir, temp, spc,
                    envVars >>

\* cmd.Process.Signal(os.Interrupt) reaches a process that has not exited.
Signal(sent, f, p) == IF p \in { "started", "opened" } THEN sent \cup { f }
                                                        ELSE sent

\* select, case <-pm.ctx.Done(): the process is sent the interrupt signal.
Q_SelectCancel(f) ==
    /\ Running /\ Sequential /\ tpc[f] = "select"
    /\ SelectsCancel(ctxDone)
    /\ sigterm' = Signal(sigterm, f, proc[f])
    /\ SeqGoto(f, "grace")
    /\ UNCHANGED << ctxDone, processes, dtmp, printed, semaphore, fsVars,
                    proc, spc, envVars >>

\* The inner select: the process has exited, or five seconds have passed
\* and the process is killed.  Then cleanup(), UnregisterProcess, return 3.
Q_Grace(f) ==
    /\ Running /\ Sequential /\ tpc[f] = "grace"
    /\ proc' = [proc EXCEPT ![f] = Reaped(Kill(proc[f]))]
    /\ sigterm' = sigterm \ { f }
    /\ cleanup(f)
    /\ processes' = UnregisterProcess(processes, f)
    /\ SeqReturn(f, Canceled)
    /\ UNCHANGED << ctxDone, dtmp, printed, semaphore, dir, temp, spc, envVars >>

\* select, case err := <-done: UnregisterProcess.  On an error cleanup() and
\* return 2; else the marker is removed and 0 is returned, without a look at
\* the output path.
Q_SelectDone(f) ==
    /\ Running /\ Sequential /\ tpc[f] = "select"
    /\ Exited(proc[f])
    /\ processes' = UnregisterProcess(processes, f)
    /\ proc' = [proc EXCEPT ![f] = Reaped(proc[f])]
    /\ IF proc[f] = "exitN"
          THEN /\ cleanup(f)
               /\ SeqReturn(f, Failed)
          ELSE /\ marker' = [marker EXCEPT ![f] = "none"]
               /\ verified' = [verified EXCEPT ![f] = IntegrityOK(output[f])]
               /\ output' = output
               /\ SeqReturn(f, Succeeded)
    /\ UNCHANGED << ctxDone, sigterm, dtmp, printed, semaphore, dir, temp, spc,
                    envVars >>

\* ------------------------------------- the basic variant (no cancellation)
\* The loop head of processFiles: wg.Add(1), or wg.Wait() after the last file.
B_Add ==
    /\ Running /\ Basic /\ dpc = "check"
    /\ IF next > nfiles
          THEN dpc' = "wait" /\ wg' = wg
          ELSE dpc' = "acquire" /\ wg' = wg + 1
    /\ UNCHANGED << ctxDone, processes, sigterm, countVars, next, dtmp,
                    printed, semaphore, taskVars, fsVars, proc, spc, envVars >>

\* semaphore <- struct{}{} and the goroutine of the file.
B_Acquire ==
    /\ Running /\ Basic /\ dpc = "acquire"
    /\ SlotFree(semaphore)
    /\ semaphore' = semaphore + 1
    /\ tpc' = [tpc EXCEPT ![next] = "entry"]
    /\ next' = next + 1
    /\ dpc' = "check"
    /\ UNCHANGED << pmVars, countVars, dtmp, printed, result, fsVars, proc,
                    spc, envVars >>

\* wg.Wait() returns and the summary is printed.
B_Summary ==
    /\ Running /\ Basic /\ dpc = "wait"
    /\ wg = 0
    /\ printed' = TRUE
    /\ dpc' = "summary"
    /\ UNCHANGED << pmVars, countVars, next, dtmp, semaphore, taskVars,
                    fsVars, proc, spc, envVars >>

\* processFile: os.MkdirAll and the output-exists check.
B_Prepare(f) ==
    /\ Running /\ Basic /\ tpc[f] = "entry"
    /\ \/ /\ ~dir[f]                        \* MkdirAll fails
          /\ Return(f, Failed)
          /\ dir' = dir
       \/ /\ dir' = [dir EXCEPT ![f] = TRUE]
          /\ IF OutputExists(output[f])
                THEN Return(f, Skipped)
                ELSE Goto(f, "start")
    /\ UNCHANGED << ctxDone, processes, sigterm, dispVars, output, marker,
                    temp, verified, proc, spc, envVars >>

\* os.Remove(outputPath) on a failure: the temporary file stays.
RemoveOutput(o) == "absent"

\* cmd.Run() starts the process and waits for it; when the process cannot
\* be started os.Remove(outputPath) and return 2.
B_Start(f) ==
    /\ Running /\ Basic /\ tpc[f] = "start"
    /\ \/ /\ output' = [output EXCEPT ![f] = RemoveOutput(output[f])]
          /\ Return(f, Failed)
          /\ proc' = proc
       \/ /\ proc' = [proc EXCEPT ![f] = "started"]
          /\ Goto(f, "select")
          /\ output' = output
    /\ UNCHANGED << ctxDone, processes, sigterm, dispVars, dir, marker, temp,
                    verified, spc, envVars >>

\* cmd.Run() returns.  On an error os.Remove(outputPath), return 2.  Else
\* the check of the output path: on failure os.Remove(outputPath), return 2;
\* on success return 0.
B_Done(f) ==
    /\ Running /\ Basic /\ tpc[f] = "select"
    /\ Exited(proc[f])
    /\ proc' = [proc EXCEPT ![f] = Reaped(proc[f])]
    /\ IF proc[f] = "exit0" /\ IntegrityOK(output[f])
          THEN /\ verified' = [verified EXCEPT ![f] = TRUE]
               /\ output' = output
               /\ Return(f, Succeeded)
          ELSE /\ output' = [output EXCEPT ![f] = RemoveOutput(output[f])]
               /\ verified' = [verified EXCEPT ![f] = FALSE]
               /\ Return(f, Failed)
    /\ UNCHANGED << ctxDone, processes, sigterm, dispVars, dir, marker, temp,
                    spc, envVars >>

\* ------------------------------------------- the external transcoder process
\* The process creates the file it was told to write: the output path, or in
\* the basic variant the path with ".tmp" added.  A process for which SIGKILL
\* is queued may still complete this step before it dies.
P_Create(f) ==
    /\ proc[f] \in { "started", "startedK" }
    /\ proc' = [proc EXCEPT ![f] = IF proc[f] = "started" THEN "opened"
                                                          ELSE "openedK"]
    /\ IF Basic
          THEN /\ temp' = [temp EXCEPT ![f] = "empty"]
               /\ UNCHANGED << output, verified >>
          ELSE /\ output' = [output EXCEPT ![f] = "empty"]
               /\ verified' = [verified EXCEPT ![f] = FALSE]
               /\ temp' = temp
    /\ UNCHANGED << pmVars, countVars, dispVars, semaphore, taskVars, dir,
                    marker, spc, envVars >>

\* The process writes data to the file it created, if the file is still
\* at its path.
P_Write(f) ==
    /\ proc[f] = "opened"
    /\ IF Basic
          THEN /\ temp[f] = "empty"
               /\ temp' = [temp EXCEPT ![f] = "data"]
               /\ output' = output
          ELSE /\ output[f] = "empty"
               /\ output' = [output EXCEPT ![f] = "data"]
               /\ temp' = temp
    /\ UNCHANGED << pmVars, countVars, dispVars, semaphore, taskVars, dir,
                    marker, verified, proc, spc, envVars >>

\* The exit status is kept for the task that waits for the process.
Waited(f, st) == IF Running /\ tpc[f] = "select"
                    THEN st ELSE "gone"

\* The process exits by itself, with status zero or not.
P_Exit(f) ==
    /\ proc[f] \in { "started", "opened" }
    /\ \E st \in { "exit0", "exitN" } :
          proc' = [proc EXCEPT ![f] = Waited(f, st)]
    /\ sigterm' = sigterm \ { f }
    /\ UNCHANGED << ctxDone, processes, wg, countVars, dispVars, semaphore,
                    taskVars, fsVars, spc, envVars >>

\* The killed process dies: cmd.Wait() reports an error.
P_Die(f) ==
    /\ proc[f] \in { "startedK", "openedK" }
    /\ proc' = [proc EXCEPT ![f] = Waited(f, "exitN")]
    /\ UNCHANGED << pmVars, countVars, dispVars, semaphore, taskVars, fsVars,
                    spc, envVars >>

\* ------------------------------------------- signal handler, pm.Shutdown()
\* The signal handler has received a signal and has not yet called os.Exit.
HandlerRunning == spc \notin { "idle", "gone" }

\* sig := <-sigChan; Shutdown starts with pm.cancel().  The basic variant
\* installs no handler.
Interrupt ==
    /\ Running /\ ~Basic /\ spc = "idle"
    /\ ctxDone' = TRUE
    /\ spc' = "term"
    /\ UNCHANGED << processes, sigterm, wg, countVars, dispVars, semaphore,
                    taskVars, fsVars, proc, envVars >>

\* Under pm.mu: SIGTERM to every registered process.
S_Term ==
    /\ Running /\ spc = "term"
    /\ sigterm' = { f \in processes : proc[f] \in { "started", "opened" } }
    /\ spc' = "wait"
    /\ UNCHANGED << ctxDone, processes, wg, countVars, dispVars, semaphore, taskVars, fsVars,
                    proc, envVars >>

\* case <-done: pm.wg.Wait() returned.
S_WaitDone ==
    /\ Running /\ Concurrent /\ spc = "wait"
    /\ wg = 0
    /\ done' = TRUE
    /\ spc' = "sweep"
    /\ UNCHANGED << pmVars, countVars, dispVars, semaphore, taskVars, fsVars,
                    proc, runVars >>

\* case <-time.After(10 * time.Second): the wait did not complete in time;
\* under pm.mu every registered process is killed.
S_Timeout ==
    /\ Running /\ Concurrent /\ spc = "wait"
    /\ wg > 0
    /\ proc' = [f \in Files |->
                  IF f \in processes THEN Kill(proc[f]) ELSE proc[f]]
    /\ sigterm' = sigterm \ processes
    /\ spc' = "sweep"
    /\ UNCHANGED << ctxDone, processes, wg, countVars, dispVars, semaphore, taskVars, fsVars,
                    envVars >>

\* Shutdown of the sequential variant ends after the wait: the handler goes
\* on to os.Exit(130).
QS_WaitDone ==
    /\ Running /\ Sequential /\ spc = "wait"
    /\ wg = 0
    /\ done' = TRUE
    /\ spc' = "exit"
    /\ UNCHANGED << pmVars, countVars, dispVars, semaphore, taskVars, fsVars,
                    proc, runVars >>

QS_Timeout ==
    /\ Running /\ Sequential /\ spc = "wait"
    /\ wg > 0
    /\ proc' = [f \in Files |->
                  IF f \in processes THEN Kill(proc[f]) ELSE proc[f]]
    /\ sigterm' = sigterm \ processes
    /\ spc' = "exit"
    /\ UNCHANGED << ctxDone, processes, wg, countVars, dispVars, semaphore,
                    taskVars, fsVars, envVars >>

\* cleanupIncompleteFiles(): for every path with the suffix ".incomplete"
\* the walk of "." removes the file at the path without the suffix, if there
\* is one, and then the marker.
SweepOutput(m, o) == IF m # "none" THEN "absent" ELSE o
SweepMarker(m) == "none"

S_Sweep ==
    /\ Running /\ spc = "sweep"
    /\ output' = [f \in Files |-> SweepOutput(marker[f], output[f])]
    /\ marker' = [f \in Files |-> SweepMarker(marker[f])]
    /\ spc' = "exit"
    /\ UNCHANGED << pmVars, countVars, dispVars, semaphore, taskVars, dir,
                    verified, temp, proc, envVars >>

\* The walk starts at the working directory, not at the root given on the
\* command line: when the root is not below it the walk finds no marker.
S_SweepElsewhere ==
    /\ Running /\ spc = "sweep"
    /\ spc' = "exit"
    /\ UNCHANGED << pmVars, countVars, dispVars, semaphore, taskVars, fsVars,
                    proc, envVars >>

\* os.Exit(130)
S_Exit ==
    /\ Running /\ spc = "exit"
    /\ Exit(130)
    /\ UNCHANGED << printed, fsVars, err >>

\* The program is killed from outside (SIGKILL): no handler runs.
Crash ==
    /\ Running
    /\ Exit(137)
    /\ UNCHANGED << printed, fsVars, err >>

\* ------------------------------------------------------- a second run
\* What a later run finds at an output path and at a marker path.
Aged(o) == IF o = "absent" THEN "absent" ELSE "old"
AgedMarker(m) == IF m = "none" THEN "none" ELSE "stale"

\* A process of the earlier run that has exited is no process of the new run.
Forgotten(p) == IF Alive(p) THEN p ELSE "none"

\* The program has returned from main and is started again on the same tree.
Rerun ==
    /\ Running /\ dpc = "summary" /\ spc = "idle"
    /\ \A f \in Files : prev[f] = NoResult
    /\ prev' = result
    /\ ctxDone' = FALSE
    /\ processes' = {}
    /\ sigterm' = {}
    /\ wg' = 0
    /\ semaphore' = 0
    /\ successCount' = 0 /\ skipCount' = 0 /\ errorCount' = 0
    /\ canceledCount' = 0
    /\ next' = 1
    /\ dpc' = "check"
    /\ dtmp' = 0
    /\ tpc' = [f \in Files |-> "idle"]
    /\ result' = [f \in Files |-> NoResult]
    /\ spc' = "idle"
    /\ proc' = [f \in Files |-> Forgotten(proc[f])]
    /\ output' = [f \in Files |-> Aged(output[f])]
    /\ marker' = [f \in Files |-> AgedMarker(marker[f])]
    /\ verified' = [f \in Files |-> FALSE]
    /\ printed' = FALSE
    /\ UNCHANGED << variant, nfiles, dir, temp, cpuVars, walkVars, sigChan,
                    err, done, exitCode >>

SecondRun == \E f \in Files : prev[f] # NoResult

\* ------------------------------------------------------------ specification
Next ==
    \/ D_Check \/ D_Store \/ D_Add \/ D_Acquire \/ D_Summary \/ M_Return
    \/ Q_Check \/ Q_Add
    \/ B_Add \/ B_Acquire \/ B_Summary
    \/ \E f \in Files :
          \/ T_Entry(f) \/ T_Prepare(f) \/ T_Start(f)
          \/ T_SelectCancel(f) \/ T_SelectDone(f)
          \/ B_Prepare(f) \/ B_Start(f) \/ B_Done(f)
          \/ Q_Entry(f) \/ Q_Prepare(f) \/ Q_Start(f)
          \/ Q_SelectCancel(f) \/ Q_Grace(f) \/ Q_SelectDone(f)
          \/ P_Create(f) \/ P_Write(f) \/ P_Exit(f) \/ P_Die(f)
    \/ Interrupt \/ S_Term \/ S_WaitDone \/ S_Timeout
    \/ QS_WaitDone \/ QS_Timeout
    \/ S_Sweep \/ S_SweepElsewhere \/ S_Exit
    \/ Crash

Spec == Init /\ [][Next]_vars

SpecRecovery == InitRecovery /\ [][Next]_vars

\* Two runs in a row that no signal interrupts.
NextTwice ==
    \/ D_Check \/ D_Add \/ D_Acquire \/ D_Summary \/ M_Return
    \/ Q_Check \/ Q_Add
    \/ B_Add \/ B_Acquire \/ B_Summary
    \/ \E f \in Files :
          \/ T_Entry(f) \/ T_Prepare(f) \/ T_Start(f) \/ T_SelectDone(f)
          \/ B_Prepare(f) \/ B_Start(f) \/ B_Done(f)
          \/ Q_Entry(f) \/ Q_Prepare(f) \/ Q_Start(f) \/ Q_SelectDone(f)
          \/ P_Create(f) \/ P_Write(f) \/ P_Exit(f)
    \/ Rerun

SpecTwice == Init /\ [][NextTwice]_vars

\* A run that no signal interrupts: the steps of the program itself ...
Program ==
    \/ D_Check \/ D_Add \/ D_Acquire \/ D_Summary \/ M_Return
    \/ Q_Check \/ Q_Add
    \/ B_Add \/ B_Acquire \/ B_Summary
    \/ \E f \in Files :
          \/ T_Entry(f) \/ T_Prepare(f) \/ T_Start(f) \/ T_SelectDone(f)
          \/ B_Prepare(f) \/ B_Start(f) \/ B_Done(f)
          \/ Q_Entry(f) \/ Q_Prepare(f) \/ Q_Start(f) \/ Q_SelectDone(f)

\* ... and the steps of the transcoder processes.
NextLive ==
    \/ Program
    \/ \E f \in Files : P_Create(f) \/ P_Write(f) \/ P_Exit(f)

\* A goroutine that can run is run in the end, and every transcoder process
\* that was started exits in the end.
Fairness ==
    /\ WF_vars(Program)
    /\ \A f \in Files : WF_vars(P_Exit(f))

SpecLive == Init /\ [][NextLive]_vars /\ Fairness

\* ------------------------------------------- a runtime fault in processFile
\* A recover handler that logs the fault and counts nothing.
NotCounted(e) == e

\* recover() != nil: mu.Lock(); errorCount++; mu.Unlock()
Recovered(e) == e + 1

\* Where the goroutine of a task is while it is inside processFile.
InProcessFile == { "entry", "prepare", "start", "select" }

\* processFile panics somewhere: it returns no result, the deferred calls of
\* the goroutine run: the recover handler, the slot release, wg.Done().
\* What the task had put on disk or started stays as it is.
T_Panic(f) ==
    /\ Running /\ Concurrent /\ tpc[f] \in InProcessFile
    /\ errorCount' = Recovered(errorCount)
    /\ semaphore' = ReleaseSlot(semaphore)
    /\ wg' = wg - 1
    /\ tpc' = [tpc EXCEPT ![f] = "panicked"]
    /\ UNCHANGED << ctxDone, processes, sigterm, successCount, skipCount,
                    canceledCount, dispVars, result, fsVars, proc, spc,
                    envVars >>

\* A run without a signal in which processFile may panic.
NextPanic ==
    \/ NextLive
    \/ \E f \in Files : T_Panic(f)

SpecPanic == Init /\ [][NextPanic]_vars

\* A run of a concurrent scheduler in which a signal may arrive and
\* processFile may panic.
InitFaults ==
    /\ variant \in { "concurrent", "basic" }
    /\ Started
    /\ Tree(NumFiles, { "fresh", "finished" })

NextFaults ==
    \/ D_Check \/ D_Store \/ D_Add \/ D_Acquire \/ D_Summary \/ M_Return
    \/ B_Add \/ B_Acquire \/ B_Summary
    \/ \E f \in Files :
          \/ T_Entry(f) \/ T_Prepare(f) \/ T_Start(f)
          \/ T_SelectCancel(f) \/ T_SelectDone(f) \/ T_Panic(f)
          \/ B_Prepare(f) \/ B_Start(f) \/ B_Done(f)
          \/ P_Create(f) \/ P_Write(f) \/ P_Exit(f) \/ P_Die(f)
    \/ Interrupt \/ S_Term \/ S_WaitDone \/ S_Timeout
    \/ S_Sweep \/ S_Exit

SpecFaults == InitFaults /\ [][NextFaults]_vars

\* ------------------------------------------------------- a second signal
\* A run of a variant with a signal handler in which the transcoder
\* processes need not ever exit and every task reacts to the cancellation
\* before the ten seconds of Shutdown have passed.
InitCancel ==
    /\ variant \in { "concurrent", "sequential" }
    /\ Started
    /\ Tree(NumFiles, { "fresh" })

\* The steps of the goroutines of the program: dispatch loop, tasks, signal
\* handler.
Goroutines ==
    \/ D_Check \/ D_Store \/ D_Add \/ D_Acquire \/ D_Summary \/ M_Return
    \/ Q_Check \/ Q_Add
    \/ \E f \in Files :
          \/ T_Entry(f) \/ T_Prepare(f) \/ T_Start(f)
          \/ T_SelectCancel(f) \/ T_SelectDone(f)
          \/ Q_Entry(f) \/ Q_Prepare(f) \/ Q_Start(f)
          \/ Q_SelectCancel(f) \/ Q_Grace(f) \/ Q_SelectDone(f)
    \/ S_Term \/ S_WaitDone \/ QS_WaitDone
    \/ S_Sweep \/ S_SweepElsewhere \/ S_Exit

NextCancel ==
    \/ Goroutines
    \/ Interrupt
    \/ \E f \in Files : P_Create(f) \/ P_Write(f) \/ P_Exit(f) \/ P_Die(f)

\* A goroutine that can run is run in the end.  Nothing is assumed of the
\* signal or of the transcoder processes: a process may go on for ever.
SpecCancel == InitCancel /\ [][NextCancel]_vars /\ WF_vars(Goroutines)

\* ------------------------------------ cleanupIncompleteFiles on its own
\* cleanupIncompleteFiles(rootPath) of the sequential variant: for every path
\* with the suffix ".incomplete" the walk removes that path; it does not look
\* at the path without the suffix.
SeqSweepOutput(m, o) == o
SeqSweepMarker(m) == "none"

\* The sequential variant defines the function and calls it nowhere; here it
\* is applied to the tree as the concurrent one is.
Q_Sweep ==
    /\ Running /\ Sequential /\ spc = "sweep"
    /\ output' = [f \in Files |-> SeqSweepOutput(marker[f], output[f])]
    /\ marker' = [f \in Files |-> SeqSweepMarker(marker[f])]
    /\ spc' = "exit"
    /\ UNCHANGED << pmVars, countVars, dispVars, semaphore, taskVars, dir,
                    verified, temp, proc, envVars >>

\* The sweep is about to run, with no task and no process around, on a tree
\* with any leftovers of earlier runs.
InitSweep ==
    /\ variant \in { "concurrent", "sequential" }
    /\ numCPU = MaxCPU
    /\ threadsPerWorker = calculateThreadsPerWorker(numCPU)
    /\ ctxDone = TRUE
    /\ processes = {}
    /\ sigterm = {}
    /\ wg = 0
    /\ semaphore = 0
    /\ successCount = 0 /\ skipCount = 0 /\ errorCount = 0 /\ canceledCount = 0
    /\ next = 1
    /\ dpc = "check"
    /\ dtmp = 0
    /\ tpc = [f \in Files |-> "idle"]
    /\ result = [f \in Files |-> NoResult]
    /\ spc = "sweep"
    /\ sigChan = 0
    /\ err = "unset"
    /\ done = TRUE
    /\ Tree(NumFiles, FileKinds)

NextSweep ==
    \/ Concurrent /\ S_Sweep
    \/ Concurrent /\ S_SweepElsewhere
    \/ Q_Sweep

SpecSweep == InitSweep /\ [][NextSweep]_vars

\* sigChan = make(chan os.Signal, 1): a signal that arrives while the buffer
\* is full is dropped by the runtime.
Buffered(n) == IF n < 1 THEN n + 1 ELSE n

\* A handler that takes every signal out of sigChan and starts over.
StartsOver(pc) == "term"

\* The handler goroutine reads sigChan once ('sig := <-sigChan', no loop): a
\* later signal leaves it where it is.
ReadsOnce(pc) == pc

\* Another interrupt arrives after the handler goroutine has taken the first
\* one out of sigChan.  signal.Notify is still in effect, so the signal is
\* put into the channel; the handler never reads the channel again.
SecondSignal ==
    /\ Running /\ HandlerRunning
    /\ sigChan' = Buffered(sigChan)
    /\ spc' = ReadsOnce(spc)
    /\ UNCHANGED << pmVars, countVars, dispVars, semaphore, taskVars, fsVars,
                    proc, variant, nfiles, prev, cpuVars, walkVars, err,
                    done, exitCode >>

\* A run over new files in which signals arrive more than once.
InitSignals ==
    /\ variant \in Variants
    /\ Started
    /\ Tree(NumFiles, { "fresh" })

NextSignals ==
    \/ Next
    \/ SecondSignal

SpecSignals == InitSignals /\ [][NextSignals]_vars

\* ------------------------------------------------------ the thread budget
\* main before the thread budget is computed, on a machine with 1 to MaxCPU
\* cores.  The sequential variant takes the number of threads from a flag.
InitThreads ==
    /\ variant \in { "concurrent", "basic" }
    /\ numCPU \in 1..MaxCPU
    /\ threadsPerWorker = 0
    /\ ctxDone = FALSE /\ processes = {} /\ sigterm = {} /\ wg = 0
    /\ semaphore = 0
    /\ successCount = 0 /\ skipCount = 0 /\ errorCount = 0 /\ canceledCount = 0
    /\ next = 1 /\ dpc = "calc" /\ dtmp = 0
    /\ tpc = [f \in Files |-> "idle"]
    /\ result = [f \in Files |-> NoResult]
    /\ spc = "idle"
    /\ sigChan = 0
    /\ err = "unset"
    /\ done = FALSE
    /\ Tree(NumFiles, { "fresh" })

\* main: threadsPerWorker := calculateThreadsPerWorker(runtime.NumCPU())
M_Calculate ==
    /\ Running /\ Concurrent /\ dpc = "calc"
    /\ threadsPerWorker' = calculateThreadsPerWorker(numCPU)
    /\ dpc' = "find"
    /\ UNCHANGED << pmVars, countVars, next, dtmp, printed, semaphore,
                    taskVars, fsVars, proc, spc, variant, nfiles, prev,
                    numCPU, walkVars, sigChan, err, done,
                    exitCode >>

\* The basic variant computes the same budget inside processFile.
B_Calculate ==
    /\ Running /\ Basic /\ dpc = "calc"
    /\ threadsPerWorker' = calculateThreadsPerWorker(numCPU)
    /\ dpc' = "find"
    /\ UNCHANGED << pmVars, countVars, next, dtmp, printed, semaphore,
                    taskVars, fsVars, proc, spc, variant, nfiles, prev,
                    numCPU, walkVars, sigChan, err, done,
                    exitCode >>

NextThreads == M_Calculate \/ B_Calculate

SpecThreads == InitThreads /\ [][NextThreads]_vars

\* ------------------------------------------------------ the walk of the tree
\* The directory paths of at most n names.
RECURSIVE DirPaths(_)
DirPaths(n) ==
    IF n = 0 THEN { << >> }
    ELSE DirPaths(n - 1) \cup
         { Append(d, x) : d \in { e \in DirPaths(n - 1) : Len(e) = n - 1 },
                          x \in DirNames }

\* The files a tree of the model may hold.
Candidates == { SourcePath(d, 1, e) : d \in DirPaths(MaxDepth), e \in Extensions }

\* The trees of at most n files.
RECURSIVE Trees(_)
Trees(n) ==
    IF n = 0 THEN { {} }
    ELSE Trees(n - 1) \cup
         { t \cup { c } : t \in Trees(n - 1), c \in Candidates }

\* main before findVideoFiles is called, on any tree of at most MaxTree files.
InitWalk ==
    /\ variant \in Variants
    /\ tree \in Trees(MaxTree)
    /\ found = {}
    /\ nfiles = 0
    /\ numCPU = MaxCPU
    /\ threadsPerWorker = calculateThreadsPerWorker(numCPU)
    /\ ctxDone = FALSE /\ processes = {} /\ sigterm = {} /\ wg = 0
    /\ semaphore = 0
    /\ successCount = 0 /\ skipCount = 0 /\ errorCount = 0 /\ canceledCount = 0
    /\ next = 1 /\ dpc = "find" /\ dtmp = 0
    /\ tpc = [f \in Files |-> "idle"]
    /\ result = [f \in Files |-> NoResult]
    /\ spc = "idle"
    /\ sigChan = 0
    /\ err = "unset"
    /\ done = FALSE
    /\ dir = [f \in Files |-> FALSE]
    /\ output = [f \in Files |-> "absent"]
    /\ marker = [f \in Files |-> "none"]
    /\ temp = [f \in Files |-> "absent"]
    /\ verified = [f \in Files |-> FALSE]
    /\ proc = [f \in Files |-> "none"]
    /\ printed = FALSE
    /\ prev = [f \in Files |-> NoResult]
    /\ exitCode = -1

\* main: files, err := findVideoFiles(rootPath)
M_Find ==
    /\ Running /\ dpc = "find"
    /\ found' = findVideoFiles(tree)
    /\ nfiles' = Cardinality(findVideoFiles(tree))
    /\ dpc' = "found"
    /\ UNCHANGED << pmVars, countVars, next, dtmp, printed, semaphore,
                    taskVars, fsVars, proc, spc, variant, prev, cpuVars, sigChan, err,
                    done,
                    tree, exitCode >>

NextWalk == M_Find

SpecWalk == InitWalk /\ [][NextWalk]_vars

\* --------------------------------------------------------------- properties
LiveProcesses == { f \in Files : Alive(proc[f]) }

CountSum == successCount + skipCount + errorCount + canceledCount

\* C1: in the concurrent variant, when the summary is printed the four
\* counters add up to the number of files.
C1_CountsSumToFiles ==
    (Concurrent /\ dpc = "summary") => CountSum = nfiles

\* C2: at most MAX_WORKERS transcoder processes are started and not yet
\* exited, in every state of the concurrent variant, canceled or not (and of
\* the other variants).
C2_ProcessCeiling ==
    Cardinality(LiveProcesses) <= MAX_WORKERS

\* MAX_WORKERS processes are alive after the cancellation, one of them killed
\* by a task that has already returned, while a third file is yet to come.
C2_Witness ==
    /\ Concurrent /\ ctxDone
    /\ Cardinality(LiveProcesses) = MAX_WORKERS
    /\ \E f \in Files : tpc[f] = "done" /\ Alive(proc[f])
    /\ \E f \in Files : tpc[f] = "idle"

\* C3: a file at an output path without its marker either was there before
\* the run, or was written by a process that exited with status zero and
\* passed the exists-and-non-empty check.
C3_UnmarkedOutputIsFinished ==
    \A f \in Files :
        (output[f] # "absent" /\ marker[f] = "none")
            => (output[f] = "old" \/ verified[f])

\* C4: a marker left by an earlier run is removed, with its partial output,
\* before any task runs, and the task of its file does not report Skipped.
C4_StaleMarkerRemovedFirst ==
    \A f \in Files :
        marker[f] = "stale" =>
            /\ \A g \in Files : tpc[g] \in { "idle", "gone" }
            /\ result[f] # Skipped

\* C5: when the program exits after an interrupt, by os.Exit(130) or by main
\* returning, no marker written by this run is left.
C5_NoMarkerLeftAtExit ==
    exitCode \in { 0, 130 } => \A f \in Files : marker[f] # "mine"

\* C6: when the program exits after an interrupt, every transcoder process
\* of this run has exited or has been force-killed.
C6_NoProcessLeftAtExit ==
    exitCode \in { 0, 130 } =>
        \A f \in Files : proc[f] \notin { "started", "opened" }

\* C7: a task that passes its entry check after the cancellation returns
\* Canceled and creates no directory, no marker and no process.
C7_CanceledAtEntry ==
    [][\A f \in Files :
          (tpc[f] = "entry" /\ tpc'[f] # "entry" /\ ctxDone /\ exitCode' = -1)
              => /\ result'[f] = Canceled
                 /\ tpc'[f] = "done"
                 /\ dir'[f] = dir[f]
                 /\ marker'[f] = marker[f]
                 /\ output'[f] = output[f]
                 /\ proc'[f] = "none"
                 /\ processes' = processes]_vars

\* A task of a file without a directory was canceled: at its entry check.
C7_Witness ==
    /\ Running /\ ctxDone
    /\ \E f \in Files :
          /\ result[f] = Canceled /\ tpc[f] = "done"
          /\ ~dir[f] /\ marker[f] = "none" /\ proc[f] = "none"

\* Where a task is when its next step looks at the output path.
OutputCheck == IF Basic THEN "entry" ELSE "prepare"

\* C8: a task that finds a file at its output path reports Skipped, writes
\* no marker, starts no process, and changes no file.
C8_SkipExistingOutput ==
    [][\A f \in Files :
          (tpc[f] = OutputCheck /\ tpc'[f] # OutputCheck
             /\ output[f] # "absent" /\ exitCode' = -1)
              => /\ result'[f] = Skipped
                 /\ tpc'[f] = "done"
                 /\ fsVars' = fsVars
                 /\ proc' = proc
                 /\ processes' = processes]_vars

\* A task has reported Skipped for a file converted earlier.
C8_Witness ==
    /\ Running
    /\ \E f \in Files :
          /\ result[f] = Skipped /\ tpc[f] = "done"
          /\ output[f] = "old" /\ marker[f] = "none" /\ proc[f] = "none"

SkipOutcomes == IF Sequential THEN { Skipped, Failed } ELSE { Skipped }

C10_SucceededOutputChecked ==
    \A f \in Files :
        (Running /\ result[f] = Succeeded) => output[f] \in { "data", "old" }

\* The file at the path the transcoder of f was told to write.
Written(f) == IF Basic THEN temp[f] ELSE output[f]

\* C11: a task whose process exited with status zero, with no cancellation,
\* and left a non-empty file where it was told to write reports Succeeded;
\* the file is then at the output path and the marker is removed.
C11_ZeroExitSucceeds ==
    [][\A f \in Files :
          (tpc[f] = "select" /\ tpc'[f] = "done" /\ proc[f] = "exit0"
             /\ ~ctxDone /\ Written(f) = "data" /\ exitCode' = -1)
              => /\ result'[f] = Succeeded
                 /\ output'[f] = "data"
                 /\ marker'[f] = "none"]_vars

\* Where a task is once it is past the point of processFile at which the
\* marker is written: about to start the process, or waiting for it.
AfterMarker == { "start", "select", "grace" }

\* C12: when a task past that point reports Failed or Canceled, the marker
\* and every partial file the transcoder produced are absent from disk at
\* that moment.
C12_FailureLeavesNothing ==
    [][\A f \in Files :
          (tpc[f] \in AfterMarker /\ tpc'[f] = "done"
             /\ result'[f] \in { Failed, Canceled } /\ exitCode' = -1)
              => /\ marker'[f] = "none"
                 /\ output'[f] = "absent"
                 /\ temp'[f] = "absent"]_vars

\* C13: once an interrupt was received while files were being processed (a
\* file has been counted as canceled), the program does not exit with
\* status 0.
C13_InterruptExits130 ==
    [][(Running /\ HandlerRunning /\ canceledCount > 0) => exitCode' # 0]_vars

\* C14: when the program has exited, by main returning or by os.Exit(130)
\* in the signal handler, the summary of processFiles has been printed.
C14_SummaryPrintedAtExit ==
    exitCode \in { 0, 130 } => printed

\* Every file of the list has an outcome.
AllOutcomes == \A f \in 1..nfiles : result[f] # NoResult

\* C15: in a run without an interrupt in which every transcoder process
\* exits, processFiles returns in the end and every file has an outcome,
\* however many files failed.
C15_ProcessFilesReturns ==
    <>(dpc = "summary" /\ AllOutcomes)

\* processFiles of the concurrent variant has returned after two files
\* failed, and the file after them was converted.
C15_Witness ==
    /\ Concurrent /\ dpc = "summary" /\ AllOutcomes
    /\ errorCount = 2
    /\ \E f \in Files : f > MAX_WORKERS /\ result[f] = Succeeded

\* The files for which processFile returned r.
Outcome(r) == { f \in Files : result[f] = r }

Panicked == { f \in Files : tpc[f] = "panicked" }

\* C16: a panic of processFile in the concurrent scheduler adds one to the
\* count of Failed and changes no other counter, and the slot and the
\* wait-group entry of the task are released; when processFiles returns,
\* every other file has been processed and counted, each exactly once.
C16_PanicCountedAsFailed ==
    /\ [][\A f \in Files :
            (tpc[f] # "panicked" /\ tpc'[f] = "panicked")
                => /\ errorCount' = errorCount + 1
                   /\ UNCHANGED << successCount, skipCount, canceledCount >>
                   /\ semaphore' = semaphore - 1
                   /\ wg' = wg - 1]_vars
    /\ []((Concurrent /\ dpc = "summary")
             => /\ \A f \in 1..nfiles : tpc[f] \in { "done", "panicked" }
                /\ \A f \in 1..nfiles : f \in Panicked <=> result[f] = NoResult
                /\ errorCount = Cardinality(Outcome(Failed) \cup Panicked)
                /\ successCount = Cardinality(Outcome(Succeeded))
                /\ skipCount = Cardinality(Outcome(Skipped))
                /\ canceledCount = 0
                /\ semaphore = 0 /\ wg = 0)

\* processFiles has returned after the task of one file panicked while its
\* process was running; the files after it were converted.
C16_Witness ==
    /\ Concurrent /\ dpc = "summary"
    /\ Cardinality(Panicked) = 1 /\ errorCount = 1
    /\ \E f \in Panicked : proc[f] # "none"
           /\ \A g \in Files : g > f => result[g] = Succeeded

\* q is the floor of x / y.
IsFloor(q, x, y) == q * y <= x /\ x < (q + 1) * y

Max(a, b) == IF a >= b THEN a ELSE b

\* C17: for every number of cores from 1 up the thread budget is
\* max(1, floor(max(1, floor(TARGET_CPU_PERCENT * cpuCount / 100)) /
\* MAX_WORKERS)); it is never below 1, it is 2 for 8 cores and 1 for 1 core.
C17_ThreadBudget ==
    dpc = "find" =>
        /\ \E q1 \in 0..(TARGET_CPU_PERCENT * MaxCPU) :
              /\ IsFloor(q1, TARGET_CPU_PERCENT * numCPU, 100)
              /\ \E q2 \in 0..(TARGET_CPU_PERCENT * MaxCPU) :
                    /\ IsFloor(q2, Max(1, q1), MAX_WORKERS)
                    /\ threadsPerWorker = Max(1, q2)
        /\ threadsPerWorker >= 1
        /\ numCPU = 8 => threadsPerWorker = 2
        /\ numCPU = 1 => threadsPerWorker = 1

\* The budget has been computed for one core: both guards have acted.
C17_Witness ==
    dpc = "find" /\ numCPU = 1 /\ threadsPerWorker = 1

\* The file lies inside a directory named 'converted', at some depth.
InConverted(p) == \E i \in 1..Len(p.dirs) : p.dirs[i] = CONVERTED_DIR

\* C18: findVideoFiles returns no file that lies inside a directory named
\* 'converted', whatever its extension.
C18_ConvertedNotEnumerated ==
    dpc = "found" => \A p \in found : ~InConverted(p)

\* The task of f started a process and then reported Failed or Canceled:
\* it has run cleanup().
CleanedUp(f) ==
    /\ Running /\ ~Basic /\ tpc[f] = "done"
    /\ result[f] \in { Failed, Canceled }
    /\ proc[f] # "none"

\* C19: a task removes the partial output and the marker only after its
\* process has terminated, so once it has reported its outcome the process
\* is not alive and nothing is at the output path.
C19_CleanupAfterTermination ==
    \A f \in Files :
        CleanedUp(f) => (~Alive(proc[f]) /\ output[f] = "absent")

\* SIGKILL is sent to the process of f in this step.
ForceKilled(f) ==
    /\ proc[f] \in { "started", "opened" }
    /\ proc'[f] \in { "startedK", "openedK" }

\* C20: after a cancellation a running process is force-killed only when it
\* has been sent the cooperative termination signal before.
C20_SignalBeforeKill ==
    [][\A f \in Files : ForceKilled(f) => f \in sigterm]_vars

\* The process of f is spawned in this step.
Spawned(f) == proc[f] = "none" /\ proc'[f] = "started"

\* C21: once the context is canceled no task spawns a process; a task that
\* has passed its entry check and has not spawned yet reports Canceled.
C21_NoSpawnAfterCancel ==
    [][\A f \in Files :
          /\ Spawned(f) => ~ctxDone
          /\ (ctxDone /\ tpc[f] \in { "prepare", "start" }
                /\ tpc'[f] # tpc[f] /\ exitCode' = -1)
                 => result'[f] = Canceled]_vars

\* The tasks whose goroutine has been started and has not finished.
RunningTasks == { f \in Files : tpc[f] \in InProcessFile \cup { "grace" } }

\* C22: in the concurrent schedulers the number of held slots is the number
\* of started and unfinished tasks, whatever the outcome of the finished
\* ones (a panic included); it never exceeds MAX_WORKERS and it is zero
\* when processFiles returns.
C22_SlotsMatchTasks ==
    ~Sequential =>
        /\ semaphore = Cardinality(RunningTasks)
        /\ semaphore <= MAX_WORKERS
        /\ dpc = "summary" => semaphore = 0

\* processFiles has returned after one task panicked, one was canceled
\* while its process ran, and one succeeded.
C22_Witness ==
    /\ Concurrent /\ dpc = "summary" /\ semaphore = 0
    /\ Panicked # {}
    /\ \E f \in Files : result[f] = Canceled /\ proc[f] # "none"
    /\ \E f \in Files : result[f] = Succeeded

\* The dispatch loop has read the counters and has not yet stored the value
\* it computed from them, and it holds no lock.
UnlockedAccess == Concurrent /\ dpc = "store"

\* C23: no access of the dispatch loop to the counters overlaps an
\* increment by a task: while the loop is between its read and its write
\* no counter changes.
C23_CountersNotRaced ==
    [][(UnlockedAccess /\ UnlockedAccess') => UNCHANGED countVars]_vars

\* The processes a signal can be delivered to.
Signalable(reg) == { f \in reg : proc[f] \in { "started", "opened" } }

C25_RegistryTracksTasks ==
    Running =>
        /\ \A f \in processes : tpc[f] \in { "select", "grace" }
                                   /\ proc[f] # "none"
        /\ \A f \in Files : tpc[f] = "done" => f \notin processes
        /\ (\A f \in 1..nfiles : tpc[f] = "done") => processes = {}

\* A task has reported Canceled and its process, killed and not yet dead,
\* is no longer registered, while the process of another task is.
C25_Witness ==
    /\ Running
    /\ \E f \in Files : tpc[f] = "done" /\ Alive(proc[f]) /\ f \notin processes
    /\ \E g \in processes : Alive(proc[g])

\* C26: the context goes from live to canceled at most once and never back;
\* a second interrupt starts no second Shutdown, moves the handler nowhere,
\* and causes no signal to a process: only the first pass of Shutdown and
\* the cancel path of a task signal or kill one.
C26_SecondSignalIgnored ==
    /\ [][(ctxDone /\ exitCode' = -1) => ctxDone']_vars
    /\ [][(HandlerRunning /\ spc # "term") => spc' # "term"]_vars
    /\ [][sigChan' # sigChan
             => (exitCode' # -1
                   \/ UNCHANGED << ctxDone, processes, sigterm, proc, spc, tpc,
                                   wg, fsVars >>)]_vars
    /\ [][(HandlerRunning /\ spc # "term" /\ ~(sigterm' \subseteq sigterm))
             => (Sequential /\ \E f \in Files : tpc[f] = "select")]_vars

\* A second interrupt is in the channel while Shutdown waits for a task whose
\* process has been sent the termination signal.
C26_Witness ==
    /\ Running /\ sigChan = 1 /\ spc = "wait" /\ ctxDone
    /\ sigterm # {}

\* C27: processFiles returns only when every task it dispatched has reported
\* its outcome, and the value it returns is the cancellation error exactly
\* when the context is canceled as it returns, nil otherwise, however many
\* files were counted as Failed.
Dispatched == { f \in Files : f < next }

Reported(f) == tpc[f] = "done" /\ result[f] # NoResult

C27_ReturnsAfterTasks ==
    [][err' # err
         => /\ \A f \in Dispatched : Reported(f)
            /\ wg = 0
            /\ (err' = "Canceled") <=> ctxDone
            /\ (err' = "nil") <=> ~ctxDone]_vars

\* processFiles of the concurrent variant has returned the cancellation error
\* and main has returned before the signal handler called os.Exit.
C27_Witness ==
    /\ Concurrent /\ exitCode = 0 /\ err = "Canceled"
    /\ \E f \in 1..nfiles : output[f] = "absent"
\* C28: in the variants that keep markers, a task spawns its transcoder only
\* after it has written its marker: the process is started from the one place
\* of processFile that is entered by the marker write alone, the marker is
\* there while the task waits for a process that Shutdown has not yet swept
\* behind, and a task whose marker write fails reports Failed, writes nothing
\* and spawns nothing.
MarkerWriteFailed(f) ==
    /\ tpc[f] = "prepare" /\ tpc'[f] = "done"
    /\ dir'[f] /\ ~OutputExists(output[f])

C28_MarkerBeforeSpawn ==
    /\ [][\A f \in Files :
            (~Basic /\ Spawned(f))
               => tpc[f] = "start"]_vars
    /\ [][\A f \in Files :
            (~Basic /\ tpc[f] # "start" /\ tpc'[f] = "start")
               => /\ tpc[f] = "prepare"
                  /\ marker'[f] = "mine"
                  /\ proc'[f] = "none"]_vars
    /\ [][\A f \in Files :
            (~Basic /\ MarkerWriteFailed(f))
               => /\ result'[f] = Failed
                  /\ marker'[f] = marker[f]
                  /\ proc'[f] = "none"]_vars
    /\ [](\A f \in Files :
            (~Basic /\ tpc[f] \in { "select", "grace" }
               /\ spc \in { "idle", "term", "wait" })
               => marker[f] = "mine")
    /\ [](\A f \in Files :
            (~Basic /\ Running /\ tpc[f] = "done" /\ result[f] = Failed)
               => ~Alive(proc[f]))

\* One task waits for its running transcoder with its marker on disk while
\* another, whose converted directory exists, has reported Failed without a
\* process and without a marker.
C28_Witness ==
    /\ ~Basic /\ Running
    /\ \E f \in Files : /\ tpc[f] = "select" /\ proc[f] = "started"
                        /\ marker[f] = "mine"
    /\ \E g \in Files : /\ result[g] = Failed /\ proc[g] = "none"
                        /\ dir[g] /\ marker[g] = "none"
\* C29: when the wait of Shutdown on the wait-group completes before its
\* timeout, no task is at that moment between spawning its process and
\* reporting its outcome and no process is registered; from then on no task
\* spawns a process and none waits for one, also when the dispatch loop
\* calls wg.Add for further files after the wait has returned.
WaitCompletes == spc = "wait" /\ ~done /\ done'

C29_NoSpawnAfterWait ==
    /\ [][WaitCompletes
            => /\ wg = 0
               /\ processes = {}
               /\ \A f \in Files : tpc[f] \notin { "select", "grace" }]_vars
    /\ [][\A f \in Files : (done /\ Running) => ~Spawned(f)]_vars
    /\ [](\A f \in Files :
            (done /\ Running) => tpc[f] \notin { "start", "select", "grace" })

\* After the wait of Shutdown has returned, the dispatch loop has called
\* wg.Add for a further file and the task of that file has been started.
C29_Witness ==
    /\ Running /\ done /\ wg > 0
    /\ \E f \in Files : tpc[f] = "entry"
\* C30: once the context is canceled, a task that waits for its process
\* reports an outcome whether or not the process ever exits; neither the wait
\* of processFiles nor the wait of Shutdown goes on for ever, and the program
\* exits.
WaitingForProcess(f) == tpc[f] \in { "select", "grace" }

C30_CancelEndsWaiting ==
    /\ \A f \in Files :
          (ctxDone /\ WaitingForProcess(f))
              ~> (tpc[f] = "done" /\ result[f] # NoResult)
    /\ (ctxDone /\ dpc = "wait") ~> (dpc # "wait")
    /\ (spc = "wait") ~> (spc # "wait")
    /\ ctxDone ~> (exitCode # -1)

\* The wait of Shutdown has completed and a task has reported Canceled while
\* its process, killed but not dead, is still there.
C30_Witness ==
    /\ Running /\ done
    /\ \E f \in Files : result[f] = Canceled /\ Alive(proc[f])
\* The step in which cleanupIncompleteFiles runs.
Sweeps == spc = "sweep" /\ spc' = "exit"

\* C31: for every marker the sweep finds it removes the marker and the file
\* at the output path of that marker, and it changes nothing else: an output
\* without a marker stays as it is, and no output whose marker the sweep
\* removed is still there afterwards.
C31_SweepRemovesBoth ==
    [][Sweeps =>
         /\ \A f \in Files :
               \/ marker'[f] = marker[f] /\ output'[f] = output[f]
               \/ /\ marker[f] # "none"
                  /\ marker'[f] = "none"
                  /\ output'[f] = "absent"
         /\ UNCHANGED << dir, temp >>]_vars
====
